---- MODULE Spec2Model ----
(***************************************************************************)
(* Material request approval, stock deduction and request numbering of the *)
(* "mater" application (mater/models.py, mater/signals.py, mater/admin.py, *)
(* pub/resources.py).                                                      *)
(*                                                                         *)
(* The database tables are the variables requests, items, stock, auditLog. *)
(* Every caller (an admin request being served, a shell session) is a      *)
(* process p that holds at most one in-memory MaterialRequestModel         *)
(* instance inst[p].  Model.save() is not atomic: the row write, and each  *)
(* read and each write of update_stock's loop, are separate database       *)
(* statements running in autocommit mode (the code opens no transaction),  *)
(* so they are separate steps that interleave with the other processes.    *)
(***************************************************************************)
EXTENDS Integers, Sequences, FiniteSets, TLC

\* ------------------------------------------------------------------ bounds
MaxReq == 3
MaxItems == 2
MaxQty == 2
MaxLog == 4
MaxLedgerLog == 2
MaxDay == 6

\* the callers that run at the same time
Procs == {"p1", "p2"}
ReqIds == 1..MaxReq
\* today is a day of January 2024; the first day is 2024-01-05
Days == 5..MaxDay
Depts == {"A", "B"}
Mats == {"M"}
StockKeys == Depts \X Mats
\* the accounts: a superuser, a material administrator, an ordinary user
Users == {"admin", "keeper", "clerk"}
\* a creator that is not set (None)
NoUser == "none"

\* a process that holds no instance (pk 0 is Python's None: not saved yet)
\* the inline formset bound to an instance: no admin submission is waiting to
\* write items
NoFormset == [pending |-> FALSE, items |-> <<>>]

NoInst ==
    [pk |-> -1, request_number |-> <<>>, approval_status |-> "approving",
     original |-> "approving", department |-> "A", creator |-> NoUser,
     formset |-> NoFormset]

VARIABLES
    today,      \* now().date(), as the day of January 2024
    requests,   \* MaterialRequestModel table: a function from the pks to the rows
    nextPk,     \* the table's auto-increment counter
    items,      \* MaterialRequestItem table, in primary-key order
    stock,      \* DepartmentMaterialStock table: (department, material) -> row
    auditLog,   \* the AuditLog rows appended since the initial state, in order
    inst,       \* the in-memory MaterialRequestModel instance of each process
    pc,         \* where each process stands inside save()
    todo,       \* update_stock: the items the loop has still to visit
    local,      \* update_stock: the department_stock object read by .get()
    created,    \* the created flag of the post_save signal being handled
    result,     \* how the last save() of each process ended
    deducted,   \* history: the amounts update_stock subtracted, per request and entry
    issued,     \* history: the request numbers of the new rows inserted, in order
    stock0,     \* history: the stock table of the initial state
    saving,     \* history, per process: the status its row held before the save
                \* in hand, the stock writes that save has made, and whether
                \* the same instance had completed a save just before it
    users,      \* auth.User table: the accounts that exist
    formError,  \* the quantity named by the error of the last item submission
                \* of the admin, -1 when it had no error
    mutations   \* history: the writes and deletes of requests and stock entries
                \* that were persisted, each with the creator of the object

vars == <<today, requests, nextPk, items, stock, auditLog, inst, pc, todo, local,
          created, result, deducted, issued, stock0, saving, users, formError,
          mutations>>

\* ------------------------------------------------------- strings and numbers
DigitChars == <<"0", "1", "2", "3", "4", "5", "6", "7", "8", "9">>

Digit(n) == DigitChars[n + 1]

\* the value of a digit character
DigitVal(c) == CHOOSE i \in 0..9 : DigitChars[i + 1] = c

\* ord(c) of the characters that occur in a request number
CharCode(c) ==
    IF c = "W" THEN 87
    ELSE IF c = "L" THEN 76
    ELSE 48 + DigitVal(c)

\* str(n) for n >= 0
RECURSIVE Decimal(_)
Decimal(n) ==
    IF n < 10 THEN <<Digit(n)>> ELSE Append(Decimal(n \div 10), Digit(n % 10))

\* "{:03}".format(n): at least three digits, padded with zeros on the left
Format03(n) ==
    LET d == Decimal(n)
    IN  IF Len(d) >= 3 THEN d ELSE [i \in 1..(3 - Len(d)) |-> "0"] \o d

\* int(s) for a string of digits
RECURSIVE ParseInt(_)
ParseInt(s) ==
    IF s = <<>> THEN 0
    ELSE ParseInt(SubSeq(s, 1, Len(s) - 1)) * 10 + DigitVal(s[Len(s)])

\* today.strftime('%Y%m%d')
DateStr(day) == <<"2", "0", "2", "4", "0", "1", Digit(day \div 10), Digit(day % 10)>>

Prefix(day) == <<"W", "L">> \o DateStr(day)

\* request_number__startswith=prefix
StartsWith(s, prefix) ==
    /\ Len(s) >= Len(prefix)
    /\ SubSeq(s, 1, Len(prefix)) = prefix

\* s.split(prefix)[-1] for a string that starts with prefix
SplitLast(s, prefix) == SubSeq(s, Len(prefix) + 1, Len(s))

\* the order of order_by('request_number'): character by character, a proper
\* prefix first
RECURSIVE StrLess(_, _)
StrLess(a, b) ==
    IF b = <<>> THEN FALSE
    ELSE IF a = <<>> THEN TRUE
    ELSE IF a[1] # b[1] THEN CharCode(a[1]) < CharCode(b[1])
    ELSE StrLess(Tail(a), Tail(b))

\* ----------------------------------------------------------------- tables
Numbers(reqs) == {reqs[r].request_number : r \in DOMAIN reqs}

\* the table t with row k written (inserted or updated)
Put(t, k, row) == [x \in DOMAIN t \cup {k} |-> IF x = k THEN row ELSE t[x]]

\* the table t without row k
Remove(t, k) == [x \in DOMAIN t \ {k} |-> t[x]]

\* a generator that numbers every request 001
generate_request_number_first(reqs, day) == Prefix(day) \o <<"0", "0", "1">>

\* MaterialRequestModel.generate_request_number
generate_request_number(reqs, day) ==
    LET prefix == Prefix(day)
        todays == {n \in Numbers(reqs) : StartsWith(n, prefix)}
    IN  IF todays # {}
        THEN LET last_request == CHOOSE n \in todays :
                                     \A m \in todays : m = n \/ StrLess(m, n)
                 last_number == ParseInt(SplitLast(last_request, prefix))
             IN  prefix \o Format03(last_number + 1)
        ELSE prefix \o <<"0", "0", "1">>

\* ------------------------------------------------------------------ values
Statuses == {"approving", "nopass", "passed"}

\* what a caller may type into a quantity field: IntegerField takes any integer
QtyInputs == (-1)..MaxQty
SafetyInputs == (-1)..1

RequestRow(number, status, dept, creator) ==
    [request_number |-> number, approval_status |-> status, department |-> dept,
     creator |-> creator]

StockRow(q, qs, creator) == [quantity |-> q, quantity_safety |-> qs, creator |-> creator]

ItemRow(r, key, q) == [request |-> r, material |-> key, quantity |-> q]

LogEntry(user, action, object) == [user |-> user, action |-> action, object |-> object]

\* instance.materialrequestitem_set.all()
ItemsOf(r) == SelectSeq(items, LAMBDA it : it.request = r)

NoDeduction == [r \in ReqIds |-> [k \in StockKeys |-> 0]]

NotSaving == [prior |-> "none", writes |-> 0, resave |-> FALSE]

\* what a process holds when it is not inside update_stock's loop
NoLocal == StockRow(0, 0, NoUser)

\* ----------------------------------------------------- audit log receivers
\* the action that post_save stands for
SaveAction(isCreated) == IF isCreated THEN "Created" ELSE "Updated"

\* audit_log_save_update: one entry, in the name of the instance's creator, when
\* the instance has one
audit_log_save_update(log, isCreated, object, creator) ==
    IF creator # NoUser
    THEN Append(log, LogEntry(creator, SaveAction(isCreated), object))
    ELSE log

\* audit_log_delete
audit_log_delete(log, object, creator) ==
    IF creator # NoUser THEN Append(log, LogEntry(creator, "Deleted", object)) ELSE log

\* the history of the persisted writes and deletes, one more
Mutated(m, action, object, creator) == Append(m, LogEntry(creator, action, object))

RequestObject(pk) == <<"materialrequestmodel", pk>>

StockObject(key) == <<"departmentmaterialstock", key[1], key[2]>>

\* ------------------------------------------------- MaterialRequestModel API
\* MaterialRequestModel(...): __init__ of an instance that has no pk
Construct(p, u, dept, status) ==
    /\ pc[p] = "idle"
    /\ u \in users
    /\ inst' = [inst EXCEPT ![p] =
                   [pk |-> 0,
                    request_number |-> generate_request_number(requests, today),
                    approval_status |-> status,
                    original |-> status,
                    department |-> dept,
                    creator |-> u,
                    formset |-> NoFormset]]
    /\ result' = [result EXCEPT ![p] = "none"]
    /\ saving' = [saving EXCEPT ![p] = NotSaving]
    /\ UNCHANGED <<today, requests, nextPk, items, stock, auditLog, pc, todo, local,
                   created, deducted, issued, stock0, users, formError, mutations>>

\* MaterialRequestModel.objects.get(pk=r): __init__ of an instance read from its row
Load(p, r) ==
    /\ pc[p] = "idle"
    /\ r \in DOMAIN requests
    /\ inst' = [inst EXCEPT ![p] =
                   [pk |-> r,
                    request_number |-> requests[r].request_number,
                    approval_status |-> requests[r].approval_status,
                    original |-> requests[r].approval_status,
                    department |-> requests[r].department,
                    creator |-> requests[r].creator,
                    formset |-> NoFormset]]
    /\ result' = [result EXCEPT ![p] = "none"]
    /\ saving' = [saving EXCEPT ![p] = NotSaving]
    /\ UNCHANGED <<today, requests, nextPk, items, stock, auditLog, pc, todo, local,
                   created, deducted, issued, stock0, users, formError, mutations>>

\* instance.approval_status = s
SetStatus(p, s) ==
    /\ pc[p] = "idle"
    /\ inst[p] # NoInst
    /\ inst[p].approval_status # s
    /\ inst' = [inst EXCEPT ![p].approval_status = s]
    /\ result' = [result EXCEPT ![p] = "none"]
    /\ saving' = [saving EXCEPT ![p] = NotSaving]
    /\ UNCHANGED <<today, requests, nextPk, items, stock, auditLog, pc, todo, local,
                   created, deducted, issued, stock0, users, formError, mutations>>

\* a column without the constraint
UniqueNumber_off(reqs, number, pk) == TRUE

\* the unique constraint on request_number: no other row holds the number
UniqueNumber(reqs, number, pk) ==
    \A r \in DOMAIN reqs : r # pk => reqs[r].request_number # number

\* update_stock, lines 28-30: does this post_save signal deduct?
Deducts(i, isCreated) ==
    /\ i.approval_status = "passed"
    /\ (isCreated \/ i.original # "passed")

\* MaterialRequestModel.save: lines 234-237, then the INSERT or UPDATE of
\* super().save(), then the post_save receivers up to the first item of
\* update_stock's loop.  A row the UPDATE does not find is inserted (created).
\* logged: does the INSERT of AuditLog.objects.create (signals.py:61-65) go
\* through?  When the database refuses it, the exception leaves the receiver
\* and save(): nothing catches it.
SaveRequest(p, logged) ==
    /\ pc[p] = "idle"
    /\ inst[p] # NoInst
    /\ LET old == inst[p]
           isNew == old.pk = 0
           i == IF isNew
                THEN [old EXCEPT
                        !.request_number =
                            IF @ = <<>> THEN generate_request_number(requests, today)
                            ELSE @,
                        !.original = old.approval_status]
                ELSE old
           pk == IF isNew THEN nextPk ELSE i.pk
           isCreated == pk \notin DOMAIN requests
           row == RequestRow(i.request_number, i.approval_status, i.department,
                             i.creator)
       IN  IF ~UniqueNumber(requests, i.request_number, pk)
           THEN \* IntegrityError: nothing is written
                /\ inst' = [inst EXCEPT ![p] = i]
                /\ result' = [result EXCEPT ![p] = "IntegrityError"]
                /\ UNCHANGED <<today, requests, nextPk, items, stock, auditLog, pc,
                               todo, local, created, deducted, issued, stock0, saving,
                               users, formError, mutations>>
           ELSE /\ isNew => nextPk <= MaxReq
                /\ requests' = Put(requests, pk, row)
                /\ nextPk' = IF isNew THEN nextPk + 1 ELSE nextPk
                /\ issued' = IF isNew THEN Append(issued, i.request_number) ELSE issued
                /\ inst' = [inst EXCEPT ![p] = [i EXCEPT !.pk = pk]]
                /\ IF Deducts(i, isCreated) /\ ItemsOf(pk) # <<>>
                   THEN /\ logged
                        /\ pc' = [pc EXCEPT ![p] = "get"]
                        /\ todo' = [todo EXCEPT ![p] = ItemsOf(pk)]
                        /\ created' = [created EXCEPT ![p] = isCreated]
                        /\ result' = [result EXCEPT ![p] = "none"]
                        /\ UNCHANGED auditLog
                   ELSE /\ logged \/ i.creator # NoUser
                        /\ auditLog' =
                               IF logged
                               THEN audit_log_save_update(auditLog, isCreated,
                                                          RequestObject(pk), i.creator)
                               ELSE auditLog
                        /\ result' = [result EXCEPT ![p] =
                                         IF logged THEN "saved" ELSE "DatabaseError"]
                        /\ UNCHANGED <<pc, todo, created>>
                /\ saving' = [saving EXCEPT ![p] =
                                 [prior |-> IF isCreated THEN "none"
                                            ELSE requests[pk].approval_status,
                                  writes |-> 0,
                                  resave |-> result[p] = "saved"]]
                /\ mutations' = Mutated(mutations, SaveAction(isCreated),
                                        RequestObject(pk), i.creator)
                /\ UNCHANGED <<today, items, stock, local, deducted, stock0, users,
                               formError>>

\* save() with the audit table taking the entry
SaveBegin(p) == SaveRequest(p, TRUE)

\* save() of a request that deducts nothing, with the audit INSERT refused
SaveLogFails(p) == SaveRequest(p, FALSE)

\* the entry update_stock looks up for an item: that of the request's department
\* and of the material of the entry the item references (lines 33-34)
DeductionKey(i, item) == <<i.department, item.material[2]>>

\* update_stock, lines 33-34: DepartmentMaterialStock.objects.get(...)
StockGet(p) ==
    /\ pc[p] = "get"
    /\ LET key == DeductionKey(inst[p], Head(todo[p]))
       IN  IF key \in DOMAIN stock
           THEN /\ local' = [local EXCEPT ![p] = stock[key]]
                /\ pc' = [pc EXCEPT ![p] = "check"]
                /\ UNCHANGED <<todo, created, result>>
           ELSE \* DoesNotExist leaves save()
                /\ pc' = [pc EXCEPT ![p] = "idle"]
                /\ todo' = [todo EXCEPT ![p] = <<>>]
                /\ created' = [created EXCEPT ![p] = FALSE]
                /\ result' = [result EXCEPT ![p] = "DoesNotExist"]
                /\ UNCHANGED local
    /\ UNCHANGED <<today, requests, nextPk, items, stock, auditLog, inst, deducted,
                   issued, stock0, saving, users, formError, mutations>>

\* update_stock, line 35: the sufficiency check on the object that was read
Insufficient(item, department_stock) == item.quantity > department_stock.quantity

\* update_stock, lines 35-38: the check, then department_stock.save() (which
\* writes every field of the object read, and is logged), then, after the last
\* item, audit_log_save_update for the request
StockCheckWrite(p) ==
    /\ pc[p] = "check"
    /\ LET item == Head(todo[p])
           key == DeductionKey(inst[p], item)
           rest == Tail(todo[p])
           written == [local[p] EXCEPT !.quantity = @ - item.quantity]
           logged == audit_log_save_update(auditLog, key \notin DOMAIN stock,
                                           StockObject(key), written.creator)
       IN  IF Insufficient(item, local[p])
           THEN \* ValueError leaves save()
                /\ pc' = [pc EXCEPT ![p] = "idle"]
                /\ todo' = [todo EXCEPT ![p] = <<>>]
                /\ created' = [created EXCEPT ![p] = FALSE]
                /\ result' = [result EXCEPT ![p] = "ValueError"]
                /\ UNCHANGED <<stock, auditLog, deducted, saving, mutations>>
           ELSE /\ stock' = Put(stock, key, written)
                /\ mutations' = Mutated(mutations, SaveAction(key \notin DOMAIN stock),
                                        StockObject(key), written.creator)
                /\ deducted' = [deducted EXCEPT ![inst[p].pk][key] = @ + item.quantity]
                /\ saving' = [saving EXCEPT ![p].writes = @ + 1]
                /\ todo' = [todo EXCEPT ![p] = rest]
                /\ IF rest # <<>>
                   THEN /\ auditLog' = logged
                        /\ pc' = [pc EXCEPT ![p] = "get"]
                        /\ UNCHANGED <<created, result>>
                   ELSE /\ auditLog' = audit_log_save_update(logged, created[p],
                                                             RequestObject(inst[p].pk),
                                                             inst[p].creator)
                        /\ pc' = [pc EXCEPT ![p] = "idle"]
                        /\ created' = [created EXCEPT ![p] = FALSE]
                        /\ result' = [result EXCEPT ![p] = "saved"]
    /\ local' = [local EXCEPT ![p] = NoLocal]
    /\ UNCHANGED <<today, requests, nextPk, items, inst, issued, stock0, users,
                   formError>>

\* a form whose instance is numbered anew, as an instance without pk is
Open_renumber(p, r, s) ==
    /\ pc[p] = "idle"
    /\ r \in DOMAIN requests
    /\ inst' = [inst EXCEPT ![p] =
                   [pk |-> r,
                    request_number |-> generate_request_number(requests, today),
                    approval_status |-> s,
                    original |-> requests[r].approval_status,
                    department |-> requests[r].department,
                    creator |-> requests[r].creator,
                    formset |-> NoFormset]]
    /\ result' = [result EXCEPT ![p] = "none"]
    /\ saving' = [saving EXCEPT ![p] = NotSaving]
    /\ UNCHANGED <<today, requests, nextPk, items, stock, auditLog, pc, todo, local,
                   created, deducted, issued, stock0, users, formError, mutations>>

\* The change form of MaterialRequestModelAdmin being bound: the object is read
\* from its row, and the form of a superuser or material administrator, for
\* whom approval_status is not read-only, sets approval_status to s.
Open(p, r, s) ==
    /\ pc[p] = "idle"
    /\ r \in DOMAIN requests
    /\ inst' = [inst EXCEPT ![p] =
                   [pk |-> r,
                    request_number |-> requests[r].request_number,
                    approval_status |-> s,
                    original |-> requests[r].approval_status,
                    department |-> requests[r].department,
                    creator |-> requests[r].creator,
                    formset |-> NoFormset]]
    /\ result' = [result EXCEPT ![p] = "none"]
    /\ saving' = [saving EXCEPT ![p] = NotSaving]
    /\ UNCHANGED <<today, requests, nextPk, items, stock, auditLog, pc, todo, local,
                   created, deducted, issued, stock0, users, formError, mutations>>

\* request.user.is_superuser
is_superuser(u) == u = "admin"

\* MaterialAdminModel.objects.filter(user=request.user).exists()
IsMaterialAdmin(u) == u = "keeper"

\* no UserDepartment row
NoDept == "none"

\* the UserDepartment table (one row per user at most: user is a OneToOneField):
\* the keeper belongs to department A, the superuser and the clerk to none
UserDepartment == [u \in Users |-> IF u = "keeper" THEN "A" ELSE NoDept]

\* DepartmentMaterialStockAdmin.get_queryset: the stock entries user u is shown
stock_get_queryset(u) ==
    IF is_superuser(u) THEN DOMAIN stock
    ELSE IF UserDepartment[u] # NoDept
         THEN {k \in DOMAIN stock : k[1] = UserDepartment[u]}
         ELSE {}

\* a list that shows every request to everyone
request_get_queryset_all(u) == DOMAIN requests

\* MaterialRequestModelAdmin.get_queryset: the requests user u is shown
request_get_queryset(u) ==
    IF is_superuser(u) THEN DOMAIN requests
    ELSE IF UserDepartment[u] # NoDept
         THEN {r \in DOMAIN requests : requests[r].department = UserDepartment[u]}
         ELSE {}

\* MaterialRequestModelAdmin.get_readonly_fields: is approval_status read-only
\* for user u, on the add form or on the change form?
get_readonly_fields(u, isAdd) ==
    isAdd \/ (~is_superuser(u) /\ ~IsMaterialAdmin(u))

\* MaterialRequestItem.objects.create(request=r, material=key, quantity=q): the
\* model has no check of its own, and no creator to log
ItemCreate(r, key, q) ==
    /\ r \in DOMAIN requests
    /\ key \in DOMAIN stock
    /\ Len(items) < MaxItems
    /\ items' = Append(items, ItemRow(r, key, q))
    /\ UNCHANGED <<today, requests, nextPk, stock, auditLog, inst, pc, todo, local,
                   created, result, deducted, issued, stock0, saving, users, formError,
                   mutations>>

\* deleting a request: its items go with it (on_delete=CASCADE, and they have no
\* creator to log), and audit_log_delete logs the request
DeleteRequest(r) ==
    /\ r \in DOMAIN requests
    /\ requests' = Remove(requests, r)
    /\ items' = SelectSeq(items, LAMBDA it : it.request # r)
    /\ auditLog' = audit_log_delete(auditLog, RequestObject(r), requests[r].creator)
    /\ mutations' = Mutated(mutations, "Deleted", RequestObject(r), requests[r].creator)
    /\ UNCHANGED <<today, nextPk, stock, inst, pc, todo, local, created, result,
                   deducted, issued, stock0, saving, users, formError>>

\* Deleting the account u (django.contrib.auth admin): AuditLog.user is a
\* ForeignKey with on_delete=CASCADE, so the entries in u's name are deleted with
\* the account. Only an account that is the creator of no stored object and of
\* no instance in hand is taken: deleting a creator would also cascade to the
\* objects, whose post_delete receivers write entries in the name of the account
\* being deleted.
DeleteUser(u) ==
    /\ u \in users
    /\ \A r \in DOMAIN requests : requests[r].creator # u
    /\ \A k \in DOMAIN stock : stock[k].creator # u
    /\ \A p \in Procs : inst[p].creator # u
    /\ users' = users \ {u}
    /\ auditLog' = SelectSeq(auditLog, LAMBDA e : e.user # u)
    /\ UNCHANGED <<today, requests, nextPk, items, stock, inst, pc, todo, local,
                   created, result, deducted, issued, stock0, saving, formError,
                   mutations>>

\* midnight: now().date() moves on
NextDay ==
    /\ today < MaxDay
    /\ today' = today + 1
    /\ UNCHANGED <<requests, nextPk, items, stock, auditLog, inst, pc, todo, local,
                   created, result, deducted, issued, stock0, saving, users, formError,
                   mutations>>

\* ------------------------------------------------------------ stock admin
\* a warning class that takes in the entries exactly at their threshold
InventoryStatusFilter_lte(value, st) ==
    IF value = "warning"
    THEN {k \in DOMAIN st : st[k].quantity <= st[k].quantity_safety}
    ELSE {k \in DOMAIN st : st[k].quantity >= st[k].quantity_safety}

\* InventoryStatusFilter.queryset: the entries of table st that the list shows
\* under filter value 'warning' or 'normal'
InventoryStatusFilter(value, st) ==
    IF value = "warning"
    THEN {k \in DOMAIN st : st[k].quantity < st[k].quantity_safety}
    ELSE {k \in DOMAIN st : st[k].quantity >= st[k].quantity_safety}

\* a form that lets every quantity pass
clean_quantity_unchecked(quantity) == TRUE

\* DepartmentMaterialStockForm.clean_quantity: does the value pass?
clean_quantity(quantity) == ~(quantity < 0)

\* DepartmentMaterialStockForm.clean_quantity_safety: does the value pass?
clean_quantity_safety(quantity_safety) == ~(quantity_safety < 0)

\* BaseAdmin.save_model: the creator of the object that is saved by user u
save_model(u, isNew, creator) == IF isNew THEN u ELSE creator

\* the add or change form of DepartmentMaterialStockAdmin: the form's checks,
\* then save_model, then audit_log_save_update
AdminStockSave(u, key, q, qs) ==
    /\ u \in users
    /\ clean_quantity(q)
    /\ clean_quantity_safety(qs)
    /\ LET isNew == key \notin DOMAIN stock
           creator == save_model(u, isNew, IF isNew THEN NoUser ELSE stock[key].creator)
       IN  /\ stock' = Put(stock, key, StockRow(q, qs, creator))
           /\ auditLog' = audit_log_save_update(auditLog, isNew, StockObject(key), creator)
           /\ mutations' = Mutated(mutations, SaveAction(isNew), StockObject(key), creator)
    /\ UNCHANGED <<today, requests, nextPk, items, inst, pc, todo, local, created,
                   result, deducted, issued, stock0, saving, users, formError>>

\* validate_quantity_fields: does the row pass (no error message)?
validate_quantity_fields(quantity, quantity_safety) ==
    ~(quantity < 0 \/ quantity_safety < 0)

\* validate_creator: is there an account of that name?
validate_creator(creator_username) == creator_username \in users

ImportRow(key, q, qs, creator) ==
    [key |-> key, quantity |-> q, quantity_safety |-> qs, creator |-> creator]

\* DepartmentMaterStockResource.before_import: no row fails a check and no
\* (department, material) pair occurs twice
before_import(dataset) ==
    /\ \A n \in 1..Len(dataset) :
           /\ validate_quantity_fields(dataset[n].quantity, dataset[n].quantity_safety)
           /\ validate_creator(dataset[n].creator)
    /\ \A m, n \in 1..Len(dataset) : m # n => dataset[m].key # dataset[n].key

\* the rows of a checked dataset written one by one (import_id_fields finds the
\* row to update, or a new one is created), each write logged
RECURSIVE ImportRows(_, _, _, _)
ImportRows(st, log, m, dataset) ==
    IF dataset = <<>> THEN <<st, log, m>>
    ELSE LET row == Head(dataset)
             isNew == row.key \notin DOMAIN st
         IN  ImportRows(Put(st, row.key,
                            StockRow(row.quantity, row.quantity_safety, row.creator)),
                        audit_log_save_update(log, isNew, StockObject(row.key), row.creator),
                        Mutated(m, SaveAction(isNew), StockObject(row.key), row.creator),
                        Tail(dataset))

\* the spreadsheet import of DepartmentMaterialStockAdmin
ImportStock(dataset) ==
    /\ before_import(dataset)
    /\ LET done == ImportRows(stock, auditLog, mutations, dataset)
       IN  /\ stock' = done[1]
           /\ auditLog' = done[2]
           /\ mutations' = done[3]
    /\ UNCHANGED <<today, requests, nextPk, items, inst, pc, todo, local, created,
                   result, deducted, issued, stock0, saving, users, formError>>

\* the spreadsheets tried: every one-row sheet, and the two-row sheets over a few rows
ImportDatasets ==
    {<<ImportRow(k, q, qs, "admin")>> : k \in StockKeys, q \in QtyInputs, qs \in SafetyInputs}
    \cup {<<ImportRow(k, 0, 0, NoUser)>> : k \in StockKeys}
    \cup {<<ImportRow(k1, q1, 0, "admin"), ImportRow(k2, q2, 0, "admin")>> :
              k1 \in StockKeys, k2 \in StockKeys, q1 \in {-1, MaxQty}, q2 \in {0}}

\* ------------------------------------------------------ request item inline
\* an inline that is never locked
ItemsLocked_never(r) == FALSE

\* MaterialRequestItemInline.has_add_permission / has_delete_permission /
\* get_readonly_fields: the items of a decided request are locked
ItemsLocked(r) == requests[r].approval_status \in {"passed", "nopass"}

\* a formset that checks nothing
FormsetClean_off(forms) == TRUE

\* MaterialRequestItemInlineFormset.clean: no form asks for more than the entry
\* it references holds
FormsetClean(forms) ==
    \A n \in 1..Len(forms) : ~(forms[n].quantity > stock[forms[n].material].quantity)

\* form.add_error('quantity', ...): the quantity that the first error names, the
\* quantity of the entry the form references; -1 when no form has an error
FormsetError(forms) ==
    IF FormsetClean(forms) THEN -1
    ELSE LET over(n) == forms[n].quantity > stock[forms[n].material].quantity
             first == CHOOSE n \in 1..Len(forms) : over(n) /\ \A m \in 1..(n - 1) : ~over(m)
         IN  stock[forms[first].material].quantity

\* A change-form submission of a request that leaves approval_status as it is
\* and edits the inline items to newItems: the formset is checked, save_model
\* saves the request (update_stock has nothing to do, the request is logged),
\* save_related writes the items.
SubmitItems(r, forms, newItems) ==
    /\ r \in DOMAIN requests
    /\ LET \* the inline of a locked request takes no added, changed or deleted
           \* form, and its read-only forms carry nothing to check
           accepted == IF ItemsLocked(r) THEN <<>> ELSE forms
           saved == IF ItemsLocked(r) THEN items ELSE newItems
       IN  /\ formError' = FormsetError(accepted)
           /\ IF FormsetClean(accepted)
              THEN /\ items' = saved
                   /\ auditLog' = audit_log_save_update(auditLog, FALSE, RequestObject(r),
                                                        requests[r].creator)
                   /\ mutations' = Mutated(mutations, "Updated", RequestObject(r),
                                           requests[r].creator)
              ELSE \* the form is shown again with its errors: nothing is saved
                   UNCHANGED <<items, auditLog, mutations>>
    /\ UNCHANGED <<today, requests, nextPk, stock, inst, pc, todo, local, created,
                   result, deducted, issued, stock0, saving, users>>

\* the submission adds one item
AdminAddItem(r, key, q) ==
    /\ Len(items) < MaxItems
    /\ key \in DOMAIN stock
    /\ SubmitItems(r, Append(ItemsOf(r), ItemRow(r, key, q)),
                   Append(items, ItemRow(r, key, q)))

\* the submission changes the quantity of item n
AdminChangeItem(n, q) ==
    /\ n \in 1..Len(items)
    /\ items[n].quantity # q
    /\ LET changed == [items EXCEPT ![n].quantity = q]
           r == items[n].request
       IN  SubmitItems(r, SelectSeq(changed, LAMBDA it : it.request = r), changed)

\* the submission ticks DELETE on item n
AdminDeleteItem(n) ==
    /\ n \in 1..Len(items)
    /\ LET kept == [m \in 1..(Len(items) - 1) |->
                        IF m < n THEN items[m] ELSE items[m + 1]]
           r == items[n].request
       IN  SubmitItems(r, SelectSeq(kept, LAMBDA it : it.request = r), kept)

\* user u submits the change form of request r with approval_status s: a
\* read-only field keeps the value of the row, and the form is only valid when
\* the inline formset is (the item forms of a locked request are read-only and
\* carry nothing to check)
ChangeForm(u, p, r, s) ==
    /\ u \in users
    /\ r \in DOMAIN requests
    /\ get_readonly_fields(u, FALSE) => s = requests[r].approval_status
    /\ ItemsLocked(r) \/ FormsetClean(ItemsOf(r))
    /\ Open(p, r, s)

\* the change form of request r bound with approval_status s and with the
\* inline forms: the instance the view will save, and the formset it will save
\* after it
Bound(r, s, forms) ==
    [pk |-> r,
     request_number |-> requests[r].request_number,
     approval_status |-> s,
     original |-> requests[r].approval_status,
     department |-> requests[r].department,
     creator |-> requests[r].creator,
     formset |-> [pending |-> TRUE, items |-> forms]]

\* a submission that is taken whatever its inline forms ask for
SubmitChange_unvalidated(u, p, r, s, forms) ==
    /\ u \in users
    /\ r \in DOMAIN requests
    /\ pc[p] = "idle"
    /\ ~ItemsLocked(r)
    /\ get_readonly_fields(u, FALSE) => s = requests[r].approval_status
    /\ formError' = -1
    /\ inst' = [inst EXCEPT ![p] = Bound(r, s, forms)]
    /\ result' = [result EXCEPT ![p] = "none"]
    /\ saving' = [saving EXCEPT ![p] = NotSaving]
    /\ UNCHANGED <<today, requests, nextPk, items, stock, auditLog, pc, todo, local,
                   created, deducted, issued, stock0, users, mutations>>

\* user u submits the change form of request r, whose items are not locked,
\* with approval_status s and the inline forms `forms` (the items of r as the
\* form shows them, some of them edited): the view validates the form and
\* MaterialRequestItemInlineFormset.clean, and only a valid submission goes on
\* to save_model (the save() steps) and then to save_related.
SubmitChange(u, p, r, s, forms) ==
    /\ u \in users
    /\ r \in DOMAIN requests
    /\ pc[p] = "idle"
    /\ ~ItemsLocked(r)
    /\ get_readonly_fields(u, FALSE) => s = requests[r].approval_status
    /\ formError' = FormsetError(forms)
    /\ IF FormsetClean(forms)
       THEN /\ inst' = [inst EXCEPT ![p] = Bound(r, s, forms)]
            /\ result' = [result EXCEPT ![p] = "none"]
            /\ saving' = [saving EXCEPT ![p] = NotSaving]
       ELSE \* the form is shown again with its errors
            UNCHANGED <<inst, result, saving>>
    /\ UNCHANGED <<today, requests, nextPk, items, stock, auditLog, pc, todo, local,
                   created, deducted, issued, stock0, users, mutations>>

\* the submission sets approval_status and leaves the items as they are
SubmitStatus(u, p, r, s) == SubmitChange(u, p, r, s, ItemsOf(r))

\* the submission approves the request and changes the quantity of its n-th item
SubmitApprovalEditing(u, p, r, n, q) ==
    /\ r \in DOMAIN requests
    /\ n \in 1..Len(ItemsOf(r))
    /\ ItemsOf(r)[n].quantity # q
    /\ SubmitChange(u, p, r, "passed", [ItemsOf(r) EXCEPT ![n].quantity = q])

\* save_related of the admin view, after save_model has returned: the inline
\* formset writes its items (they have no creator: nothing is logged)
save_related(p) ==
    /\ pc[p] = "idle"
    /\ inst[p].formset.pending
    /\ result[p] = "saved"
    /\ items' = SelectSeq(items, LAMBDA it : it.request # inst[p].pk)
                    \o inst[p].formset.items
    /\ inst' = [inst EXCEPT ![p].formset.pending = FALSE]
    /\ UNCHANGED <<today, requests, nextPk, stock, auditLog, pc, todo, local, created,
                   result, deducted, issued, stock0, saving, users, formError, mutations>>

\* ------------------------------------------------------------ specifications
Idle ==
    /\ auditLog = <<>>
    /\ inst = [p \in Procs |-> NoInst]
    /\ pc = [p \in Procs |-> "idle"]
    /\ todo = [p \in Procs |-> <<>>]
    /\ local = [p \in Procs |-> NoLocal]
    /\ created = [p \in Procs |-> FALSE]
    /\ result = [p \in Procs |-> "none"]
    /\ saving = [p \in Procs |-> NotSaving]
    /\ deducted = NoDeduction
    /\ users = Users
    /\ formError = -1
    /\ mutations = <<>>

\* an empty database on 2024-01-05
InitEmpty ==
    /\ today = 5
    /\ requests = <<>>
    /\ nextPk = 1
    /\ items = <<>>
    /\ issued = <<>>
    /\ stock = <<>>
    /\ stock0 = stock
    /\ Idle

\* Department A stocks material M, department B may; two requests of department
\* A, numbered on 2024-01-05, await approval; two items have been entered.
InitStock == {[k \in keys |-> StockRow(MaxQty, 0, "admin")] : keys \in {{<<"A", "M">>}, StockKeys}}

InitPending ==
    /\ today = 5
    /\ requests = [r \in 1..2 |-> RequestRow(Prefix(5) \o Format03(r), "approving", "A",
                                                 "clerk")]
    /\ nextPk = 3
    /\ issued = <<Prefix(5) \o Format03(1), Prefix(5) \o Format03(2)>>
    /\ stock \in InitStock
    /\ stock0 = stock
    /\ \E r2 \in 1..2, k2 \in DOMAIN stock, q1 \in 1..MaxQty, q2 \in 1..MaxQty :
           items = <<ItemRow(1, <<"A", "M">>, q1), ItemRow(r2, k2, q2)>>
    /\ Idle

\* the step appends no audit row beyond the n-th, and persists no write beyond
\* the n-th (the bound of the exploration)
LogWithin(n) == Len(auditLog') <= n /\ Len(mutations') <= n

\* request numbering: construction, saving and deletion of requests over the days
NextNumber ==
    \/ \E p \in Procs : Construct(p, "clerk", "A", "approving")
    \/ \E p \in Procs : SaveBegin(p) /\ LogWithin(MaxLog)
    \/ \E r \in ReqIds : DeleteRequest(r) /\ LogWithin(MaxLog)
    \/ NextDay

SpecNumber == InitEmpty /\ [][NextNumber]_vars

\* approval: the pending requests are opened, set to passed and saved, concurrently
NextApprove ==
    \/ \E p \in Procs, r \in ReqIds : Open(p, r, "passed")
    \/ \E p \in Procs : SaveBegin(p) /\ LogWithin(MaxLog)
    \/ \E p \in Procs : StockGet(p)
    \/ \E p \in Procs : StockCheckWrite(p) /\ LogWithin(MaxLog)

SpecApprove == InitPending /\ [][NextApprove]_vars

\* The stock ledger: everything that writes a stock entry or an item.
\* Department A stocks material M; one request awaits approval with one item.
InitLedger ==
    /\ today = 5
    /\ requests = [r \in 1..1 |-> RequestRow(Prefix(5) \o Format03(r), "approving", "A",
                                                 "clerk")]
    /\ nextPk = 2
    /\ issued = <<Prefix(5) \o Format03(1)>>
    /\ stock = [k \in {<<"A", "M">>} |-> StockRow(MaxQty, 0, "admin")]
    /\ stock0 = stock
    /\ \E q1 \in 1..MaxQty : items = <<ItemRow(1, <<"A", "M">>, q1)>>
    /\ Idle

NextLedger ==
    \/ \E p \in Procs, r \in ReqIds : Open(p, r, "passed")
    \/ \E p \in Procs : SaveBegin(p) /\ LogWithin(MaxLedgerLog)
    \/ \E p \in Procs : StockGet(p)
    \/ \E p \in Procs : StockCheckWrite(p) /\ LogWithin(MaxLedgerLog)
    \/ \E k \in StockKeys, q \in QtyInputs, qs \in SafetyInputs :
           AdminStockSave("admin", k, q, qs) /\ LogWithin(MaxLedgerLog)
    \/ \E dataset \in ImportDatasets : ImportStock(dataset) /\ LogWithin(MaxLedgerLog)
    \/ \E r \in ReqIds, k \in StockKeys, q \in QtyInputs :
           AdminAddItem(r, k, q) /\ LogWithin(MaxLedgerLog)
    \/ \E n \in 1..MaxItems, q \in QtyInputs :
           AdminChangeItem(n, q) /\ LogWithin(MaxLedgerLog)
    \/ \E n \in 1..MaxItems : AdminDeleteItem(n) /\ LogWithin(MaxLedgerLog)

SpecLedger == InitLedger /\ [][NextLedger]_vars

\* The life of a request in the hands of one caller at a time: it is created,
\* reloaded, decided by the users who may, saved again; items are entered in
\* the admin.
\* Department A stocks material M; there is no request yet.
InitLifecycle ==
    /\ today = 5
    /\ requests = <<>>
    /\ nextPk = 1
    /\ items = <<>>
    /\ issued = <<>>
    /\ stock = [k \in {<<"A", "M">>} |-> StockRow(MaxQty, 0, "admin")]
    /\ stock0 = stock
    /\ Idle

NextLifecycle ==
    \/ \E s \in {"approving", "passed"} : Construct("p1", "clerk", "A", s)
    \/ \E r \in ReqIds : Load("p1", r)
    \/ \E u \in Users, r \in ReqIds, s \in Statuses : ChangeForm(u, "p1", r, s)
    \/ SaveBegin("p1") /\ LogWithin(MaxLog)
    \/ StockGet("p1")
    \/ StockCheckWrite("p1") /\ LogWithin(MaxLog)
    \/ \E r \in ReqIds, q \in QtyInputs :
           AdminAddItem(r, <<"A", "M">>, q) /\ LogWithin(MaxLog)

SpecLifecycle == InitLifecycle /\ [][NextLifecycle]_vars

\* the whole program
\* Requests and items made by code through the model layer: a request is
\* constructed with a status and saved, items are created for it, it is
\* reloaded, approved and saved again.
NextCreate ==
    \/ \E s \in {"approving", "passed"} : Construct("p1", "clerk", "A", s)
    \/ \E r \in ReqIds : Load("p1", r)
    \/ SetStatus("p1", "passed")
    \/ SaveBegin("p1") /\ LogWithin(MaxLog)
    \/ StockGet("p1")
    \/ StockCheckWrite("p1") /\ LogWithin(MaxLog)
    \/ \E r \in ReqIds, q \in 1..MaxQty : ItemCreate(r, <<"A", "M">>, q)

SpecCreate == InitLifecycle /\ [][NextCreate]_vars

\* The audit log: several accounts edit the stock entries and file requests,
\* requests are deleted, accounts are deleted.
NextAudit ==
    \/ \E u \in Users, k \in StockKeys, q \in 0..1 :
           AdminStockSave(u, k, q, 0) /\ LogWithin(MaxLog)
    \/ \E u \in Users : Construct("p1", u, "A", "approving")
    \/ SaveBegin("p1") /\ LogWithin(MaxLog)
    \/ \E r \in ReqIds : DeleteRequest(r) /\ LogWithin(MaxLog)
    \/ \E u \in Users : DeleteUser(u)
    \/ SaveLogFails("p1") /\ LogWithin(MaxLog)

SpecAudit == InitLifecycle /\ [][NextAudit]_vars

\* Admin submissions of the change form by one user at a time: the status, or
\* the status and an item, then the save and the formset's save.
NextSubmit ==
    \/ \E u \in Users, r \in ReqIds, s \in Statuses : SubmitStatus(u, "p1", r, s)
    \/ \E u \in Users, r \in ReqIds, n \in 1..MaxItems, q \in 1..MaxQty :
           SubmitApprovalEditing(u, "p1", r, n, q)
    \/ SaveBegin("p1") /\ LogWithin(MaxLog)
    \/ StockGet("p1")
    \/ StockCheckWrite("p1") /\ LogWithin(MaxLog)
    \/ save_related("p1")

SpecSubmit == InitPending /\ [][NextSubmit]_vars

\* What the lists show: requests are filed for both departments and stock
\* entries are kept for both.
NextVisible ==
    \/ \E d \in Depts : Construct("p1", "clerk", d, "approving")
    \/ SaveBegin("p1") /\ LogWithin(MaxLog)
    \/ \E k \in StockKeys, q \in 0..1 :
           AdminStockSave("admin", k, q, 0) /\ LogWithin(MaxLog)

SpecVisible == InitLifecycle /\ [][NextVisible]_vars

\* The day's counter near the end of its three digits: of the requests filed
\* today only the last one is left (the earlier ones have been deleted; the
\* primary keys are counted from 1 again), and its counter is one of these.
LastCounters == {9, 99, 998, 999}

InitCounter ==
    /\ today = 5
    /\ \E c \in LastCounters :
           /\ requests = [r \in 1..1 |->
                             RequestRow(Prefix(5) \o Format03(c), "approving", "A", "clerk")]
           /\ issued = <<Prefix(5) \o Format03(c)>>
    /\ nextPk = 2
    /\ items = <<>>
    /\ stock = [k \in {<<"A", "M">>} |-> StockRow(MaxQty, 0, "admin")]
    /\ stock0 = stock
    /\ Idle

NextCounter ==
    \/ \E p \in Procs : Construct(p, "clerk", "A", "approving")
    \/ \E p \in Procs : SaveBegin(p) /\ LogWithin(MaxLog)
    \/ \E r \in ReqIds : DeleteRequest(r) /\ LogWithin(MaxLog)

SpecCounter == InitCounter /\ [][NextCounter]_vars

Init == InitEmpty \/ InitPending \/ InitLedger \/ InitLifecycle \/ InitCounter

Next ==
    \/ \E p \in Procs, u \in Users, d \in Depts, s \in Statuses : Construct(p, u, d, s)
    \/ \E p \in Procs, r \in ReqIds : Load(p, r)
    \/ \E p \in Procs, s \in Statuses : SetStatus(p, s)
    \/ \E p \in Procs, r \in ReqIds, s \in Statuses : Open(p, r, s)
    \/ NextNumber
    \/ NextLedger
    \/ NextLifecycle
    \/ NextCreate
    \/ NextAudit
    \/ NextSubmit
    \/ NextVisible
    \/ NextCounter

Spec == Init /\ [][Next]_vars

\* ------------------------------------------------------------------ claims
RECURSIVE SumQuantity(_)
SumQuantity(its) ==
    IF its = <<>> THEN 0 ELSE Head(its).quantity + SumQuantity(Tail(its))

\* the sum of the quantities of the items of request r that reference entry k
Requested(r, k) == SumQuantity(SelectSeq(ItemsOf(r), LAMBDA it : it.material = k))

RECURSIVE SumDeducted(_, _)
SumDeducted(rs, k) ==
    IF rs = {} THEN 0
    ELSE LET r == CHOOSE x \in rs : TRUE
         IN  deducted[r][k] + SumDeducted(rs \ {r}, k)

\* no save of request r is in hand
Settled(r) == \A p \in Procs : inst[p].pk = r => pc[p] = "idle"

\* C1: once a request has gone from approving to passed and the save has
\* returned, what was subtracted from each stock entry on account of the
\* request is the sum of the quantities of its items for that entry, once.
C1_DeductionEqualsItems ==
    \A r \in DOMAIN requests :
        (requests[r].approval_status = "passed" /\ Settled(r))
            => \A k \in StockKeys : deducted[r][k] = Requested(r, k)

\* C2: a save of a request whose row already holds status passed, made on
\* an instance loaded from that row or on the instance whose previous save has
\* just returned, writes no stock entry.
C2_ResaveWritesNoStock ==
    \A p \in Procs :
        (saving[p].prior = "passed" /\ (inst[p].original = "passed" \/ saving[p].resave))
            => saving[p].writes = 0

\* C3: an approval that ends with the insufficient-stock error has written no
\* stock entry.
C3_FailedApprovalWritesNoStock ==
    \A p \in Procs : result[p] = "ValueError" => saving[p].writes = 0

\* C4: after an approval that ended with the insufficient-stock error, the row
\* of the request does not hold status passed.
C4_FailedApprovalNotPassed ==
    \A p \in Procs :
        (result[p] = "ValueError" /\ inst[p].pk \in DOMAIN requests)
            => requests[inst[p].pk].approval_status # "passed"

\* the approval of a request by process p has ended, one way or the other
Approved(p) ==
    /\ pc[p] = "idle"
    /\ inst[p].pk \in DOMAIN requests
    /\ inst[p].approval_status = "passed"
    /\ inst[p].original = "approving"
    /\ result[p] \in {"saved", "ValueError"}

\* requests r1 and r2 ask for entry k only, each for no more than the entry
\* held initially, together for more
JointlyOverdraw(r1, r2, k) ==
    /\ r1 # r2
    /\ \A r \in {r1, r2} :
           /\ Requested(r, k) = SumQuantity(ItemsOf(r))
           /\ Requested(r, k) > 0
           /\ Requested(r, k) <= stock0[k].quantity
    /\ Requested(r1, k) + Requested(r2, k) > stock0[k].quantity

\* C5: when the approvals of two requests that jointly overdraw one stock entry
\* have both ended, whatever the interleaving of their steps, one has deducted
\* in full, the other has failed without writing, and the entry holds its
\* initial quantity minus the amount of the approval that succeeded.
C5_NoLostUpdate ==
    \A p \in Procs, q \in Procs, k \in DOMAIN stock :
        (/\ Approved(p) /\ Approved(q)
         /\ JointlyOverdraw(inst[p].pk, inst[q].pk, k)
         /\ result[p] = "saved")
            => /\ result[q] = "ValueError"
               /\ saving[q].writes = 0
               /\ stock[k].quantity = stock0[k].quantity - Requested(inst[p].pk, k)

C7_NumbersUnique ==
    \A r1 \in DOMAIN requests, r2 \in DOMAIN requests :
        r1 # r2 => requests[r1].request_number # requests[r2].request_number

\* two requests are persisted, and a save that carried a number already taken
\* has been turned down by the unique constraint
C7_Witness ==
    /\ Cardinality(DOMAIN requests) >= 2
    /\ \E p \in Procs :
           /\ result[p] = "IntegrityError"
           /\ inst[p].request_number \in Numbers(requests)

\* C8: the save of a new request never ends with the uniqueness error: a save
\* whose number was taken in the meantime takes a new number and persists.
C8_CollisionIsRetried ==
    \A p \in Procs : inst[p].pk = 0 => result[p] # "IntegrityError"

\* the day and the counter of a request number
DayOf(n) == ParseInt(SubSeq(n, 9, 10))

CounterOf(n) == ParseInt(SubSeq(n, 11, Len(n)))

\* C9: of two numbers issued to new rows for the same day, the one issued
\* later has the greater counter (so no number is issued twice).
C9_NumbersIncreaseWithinDay ==
    \A i \in 1..Len(issued), j \in 1..Len(issued) :
        (i < j /\ DayOf(issued[i]) = DayOf(issued[j]))
            => CounterOf(issued[i]) < CounterOf(issued[j])

\* the counters of the persisted requests numbered for the day
CountersOf(day) == {CounterOf(n) : n \in {m \in Numbers(requests) : DayOf(m) = day}}

Largest(S) == CHOOSE x \in S : \A y \in S : y <= x

\* the number a request constructed now is to get
ExpectedNumber ==
    LET first == CountersOf(today) = {}
        counter == IF first THEN 1 ELSE Largest(CountersOf(today)) + 1
        day == <<"2", "0", "2", "4", "0", "1",
                 DigitChars[(today \div 10) + 1], DigitChars[(today % 10) + 1]>>
        digits == <<DigitChars[((counter \div 100) % 10) + 1],
                    DigitChars[((counter \div 10) % 10) + 1],
                    DigitChars[(counter % 10) + 1]>>
    IN  <<"W", "L">> \o day \o digits

\* C10: a request constructed on a day gets WL + YYYYMMDD + 001 when no
\* persisted request is numbered for that day, whatever requests the other days
\* have, and otherwise the last counter of the day plus one.
C10_GeneratedNumber ==
    [][\A p \in Procs :
          Construct(p, "clerk", "A", "approving")
              => inst'[p].request_number = ExpectedNumber]_vars

\* 2024-01-05 has its requests 001 and 002; on 2024-01-06 a request has been
\* constructed and is numbered WL20240106001
C10_Witness ==
    /\ today = 6
    /\ {<<"W", "L", "2", "0", "2", "4", "0", "1", "0", "5", "0", "0", "1">>,
         <<"W", "L", "2", "0", "2", "4", "0", "1", "0", "5", "0", "0", "2">>}
            \subseteq Numbers(requests)
    /\ \E p \in Procs :
           /\ inst[p].pk = 0
           /\ inst[p].request_number =
                  <<"W", "L", "2", "0", "2", "4", "0", "1", "0", "6", "0", "0", "1">>

\* C11: no step changes the request_number of a request that is persisted: not a
\* save of a reloaded or re-opened instance, not a change of status, not an
\* edit of the items.
C11_NumberImmutable ==
    [][\A r \in DOMAIN requests :
          r \in DOMAIN requests'
              => requests'[r].request_number = requests[r].request_number]_vars

\* a request that was persisted as approving has since been saved as passed
\* from a form, has an item, and still has the number it was created with
C11_Witness ==
    \E p \in Procs :
        /\ inst[p].pk \in DOMAIN requests
        /\ saving[p].prior = "approving"
        /\ result[p] = "saved"
        /\ requests[inst[p].pk].approval_status = "passed"
        /\ ItemsOf(inst[p].pk) # <<>>
        /\ requests[inst[p].pk].request_number = issued[inst[p].pk]

\* C12: a request whose row holds status passed or nopass keeps that status in
\* every step, whoever acts.
C12_DecidedIsTerminal ==
    [][\A r \in DOMAIN requests :
          (requests[r].approval_status \in {"passed", "nopass"} /\ r \in DOMAIN requests')
              => requests'[r].approval_status = requests[r].approval_status]_vars

Entries(action, object) ==
    Cardinality({n \in 1..Len(auditLog) :
                    auditLog[n].action = action /\ auditLog[n].object = object})

Rows(seq) == {seq[n] : n \in 1..Len(seq)}

\* C14: an item row that a step adds, or gives a new value, asks for no more
\* than the stock entry it references holds at that time; a submission that is
\* rejected names the quantity of a stock entry and leaves every item as it was.
C14_ExcessiveItemRejected ==
    [][/\ \A it \in Rows(items') \ Rows(items) :
              it.quantity <= stock[it.material].quantity
       /\ (formError' # formError /\ formError' >= 0) =>
              /\ items' = items
              /\ \E k \in DOMAIN stock : formError' = stock[k].quantity]_vars

\* an item was accepted, and a later submission asking for too much was rejected
C14_Witness ==
    /\ items # <<>>
    /\ formError >= 0

\* C15: in a step in which the row of a request becomes passed, every item of
\* the request asks for no more than the stock entry it references holds.
C15_PassedOnlyWithStock ==
    [][\A r \in DOMAIN requests :
          (/\ r \in DOMAIN requests'
           /\ requests[r].approval_status # "passed"
           /\ requests'[r].approval_status = "passed")
              => \A n \in 1..Len(ItemsOf(r)) :
                     ItemsOf(r)[n].quantity <= stock[ItemsOf(r)[n].material].quantity]_vars

\* C16: a stock write made by an approval never raises the quantity of a stock
\* entry.
C16_ApprovalNeverIncreases ==
    [][\A p \in Procs :
          saving'[p].writes > saving[p].writes
              => \A k \in DOMAIN stock : stock'[k].quantity <= stock[k].quantity]_vars

\* C17: once the save that first stored a request, with status passed, has
\* returned, what has been subtracted from each stock entry on account of the
\* request is the sum of the quantities of its items for that entry.
C17_CreatedPassedDeducts ==
    \A p \in Procs :
        (/\ inst[p].pk \in DOMAIN requests
         /\ saving[p].prior = "none"
         /\ inst[p].approval_status = "passed"
         /\ result[p] = "saved"
         /\ pc[p] = "idle")
            => \A k \in StockKeys : deducted[inst[p].pk][k] = Requested(inst[p].pk, k)

\* how many times row e occurs in a sequence
Count(seq, e) == Cardinality({n \in 1..Len(seq) : seq[n] = e})

\* C18: when no save is in hand, the audit log holds one entry for every
\* persisted create, update or delete of an object that has a creator, with the
\* matching action, and none for an object without creator.
C18_OneEntryPerMutation ==
    (\A p \in Procs : pc[p] = "idle")
        => \A e \in Rows(mutations) \cup Rows(auditLog) :
               Count(auditLog, e) = IF e.user = NoUser THEN 0 ELSE Count(mutations, e)

\* C19: when account u saves a stock entry in the admin and the save is
\* logged, the entry appended to the audit log carries u as its user.
C19_EntryNamesActingUser ==
    [][\A u \in Users, k \in StockKeys, q \in QtyInputs, qs \in SafetyInputs :
          (AdminStockSave(u, k, q, qs) /\ Len(auditLog') > Len(auditLog))
              => auditLog'[Len(auditLog')].user = u]_vars

\* C20: no step changes or removes an entry of the audit log: the log before
\* the step is the beginning of the log after it.
C20_LogAppendOnly ==
    [][/\ Len(auditLog') >= Len(auditLog)
       /\ SubSeq(auditLog', 1, Len(auditLog)) = auditLog]_vars

\* C21: no save of a request returns to its caller with the error of a refused
\* audit entry.
C21_LogFailureIsolated ==
    \A p \in Procs : result[p] # "DatabaseError"

\* C22: the audit log never holds more entries for a write than writes of it
\* have been persisted, and once an approval has ended with the insufficient-
\* stock error and no save is in hand, the update of its request row, which was
\* persisted, has its entry.
C22_LogFollowsMutations ==
    /\ \A e \in Rows(auditLog) : Count(auditLog, e) <= Count(mutations, e)
    /\ (\A p \in Procs : pc[p] = "idle")
           => \A p \in Procs :
                  (result[p] = "ValueError" /\ inst[p].creator # NoUser)
                      => LET e == LogEntry(inst[p].creator, "Updated",
                                           RequestObject(inst[p].pk))
                         IN  Count(auditLog, e) = Count(mutations, e)

C29_DeductsSubmittedItems ==
    \A p \in Procs :
        (/\ pc[p] = "idle"
         /\ result[p] = "saved"
         /\ saving[p].prior = "approving"
         /\ inst[p].approval_status = "passed"
         /\ inst[p].formset.items # <<>>
         /\ ~inst[p].formset.pending)
            => \A k \in StockKeys :
                   deducted[inst[p].pk][k] =
                       SumQuantity(SelectSeq(inst[p].formset.items,
                                             LAMBDA it : it.material = k))

\* C24: every stock entry is listed under exactly one of the filter values
\* warning and normal, under warning exactly when its quantity is below its
\* safety threshold; with threshold 2, an entry of 6 is normal and one of 1 is
\* warning.
C24_WarningOrNormal ==
    /\ \A k \in DOMAIN stock :
           /\ (k \in InventoryStatusFilter("warning", stock))
                  # (k \in InventoryStatusFilter("normal", stock))
           /\ (k \in InventoryStatusFilter("warning", stock))
                  <=> stock[k].quantity < stock[k].quantity_safety
    /\ LET shelf == [k \in {"full", "low"} |->
                        StockRow(IF k = "full" THEN 6 ELSE 1, 2, "admin")]
       IN  /\ InventoryStatusFilter("normal", shelf) = {"full"}
           /\ InventoryStatusFilter("warning", shelf) = {"low"}

\* one entry is below its threshold, another stands exactly at its threshold
C24_Witness ==
    /\ InventoryStatusFilter("warning", stock) # {}
    /\ \E k \in DOMAIN stock : stock[k].quantity = stock[k].quantity_safety

\* C25: a superuser is shown every request and every stock entry; another user
\* is shown exactly those of the department they are assigned to, and nothing
\* when they are assigned to none.
C25_DepartmentScoped ==
    \A u \in users :
        IF is_superuser(u)
        THEN /\ request_get_queryset(u) = DOMAIN requests
             /\ stock_get_queryset(u) = DOMAIN stock
        ELSE /\ \A r \in DOMAIN requests :
                    r \in request_get_queryset(u)
                        <=> (UserDepartment[u] # NoDept
                             /\ requests[r].department = UserDepartment[u])
             /\ \A k \in DOMAIN stock :
                    k \in stock_get_queryset(u)
                        <=> (UserDepartment[u] # NoDept /\ k[1] = UserDepartment[u])

\* both departments have a request and a stock entry: the keeper is shown some
\* of them and not the others
C25_Witness ==
    /\ \E r1, r2 \in DOMAIN requests :
           requests[r1].department = "A" /\ requests[r2].department = "B"
    /\ \E k1, k2 \in DOMAIN stock : k1[1] = "A" /\ k2[1] = "B"
    /\ request_get_queryset("keeper") \notin {{}, DOMAIN requests}
    /\ stock_get_queryset("keeper") \notin {{}, DOMAIN stock}
    /\ request_get_queryset("clerk") = {}

\* C26: the number a request is constructed with is new, ends in exactly three
\* digits after the prefix of the day, and its counter is the largest counter
\* among the day's persisted numbers plus one (1 when the day has none).
C26_NextCounter ==
    [][\A p \in Procs :
          Construct(p, "clerk", "A", "approving")
              => LET number == inst'[p].request_number
                     counters == CountersOf(today)
                 IN  /\ number \notin Numbers(requests)
                     /\ Len(number) = Len(Prefix(today)) + 3
                     /\ StartsWith(number, Prefix(today))
                     /\ ParseInt(SplitLast(number, Prefix(today))) =
                            IF counters = {} THEN 1 ELSE Largest(counters) + 1]_vars

\* C27: a stock entry from which an approval has subtracted something on
\* account of a request is an entry that an item of the request references.
C27_DeductsReferencedEntry ==
    \A r \in DOMAIN requests, k \in StockKeys :
        deducted[r][k] # 0 => \E n \in 1..Len(ItemsOf(r)) : ItemsOf(r)[n].material = k

\* C28: a step that changes the quantity of a stock entry is the deduction of a
\* save that takes a request's row into passed from another status, or a
\* manual edit, or an import.
C28_OnlyApprovalChangesStock ==
    [][(\E k \in DOMAIN stock \cap DOMAIN stock' :
            stock'[k].quantity # stock[k].quantity)
          => \/ \E p \in Procs : /\ saving'[p].writes > saving[p].writes
                                 /\ saving[p].prior # "passed"
             \/ \E u \in Users, k \in StockKeys, q \in QtyInputs, qs \in SafetyInputs :
                    AdminStockSave(u, k, q, qs)
             \/ \E dataset \in ImportDatasets : ImportStock(dataset)]_vars

====
